---- MODULE Spec2Model ----
(***************************************************************************)
(* maybe_uninit: a union holding exactly one possibly uninitialized T.     *)
(* src/maybe_uninit.hpp holds two variants of the primitive:               *)
(*   "earlier" (lines 1-297):  maybe_uninit<T, SELF_DESTRUCT>, with        *)
(*        default_init / init / ptr / assume_init / destruct;              *)
(*   "later"   (lines 299-654): maybe_uninit<T>, with default_init /       *)
(*        paren_init / brace_init / ptr / ref / bytes / destroy.           *)
(* The model is one program using one cell: it picks the payload type and  *)
(* the variant, creates the cell, applies member operations to it and      *)
(* finally lets the cell's lifetime end.  The abstract machine's view of   *)
(* the storage (whether a T is within its lifetime, which constructor and  *)
(* destructor calls were made) is kept beside the storage itself.          *)
(* Spec is that program; SpecBytes is the program of the documentation's   *)
(* bytes() example, which writes a std::uint32_t cell through its bytes.   *)
(***************************************************************************)
EXTENDS Integers, Sequences, FiniteSets, TLC

\* ------------------------------------------------------------------ bounds
MaxVal == 1
NumAddrs == 1
MaxOps == 3

Values == 0..MaxVal
Addrs == 1..NumAddrs
NoExc == "none"
Exceptions == {"bad_alloc", "length_error"}
\* the storage after a constructor threw part-way: nothing may read it
Indeterminate == -1

\* ----------------------------------------------------------- payload types
\* int; NonTrivial { NonTrivial() = delete; NonTrivial(int) {} ~NonTrivial() {...} };
\* std::string; int const, a const-qualified payload.
Types == {"int", "const int", "NonTrivial", "string"}

is_const(t) == t = "const int"

is_trivially_destructible(t) == t \in {"int", "const int", "uint32_t"}

\* sizeof(T) and alignof(T) where int has 32 bits and pointers have 64
sizeof_T(t) ==
    CASE t \in {"int", "const int", "uint32_t"} -> 4
      [] t \in {"NonTrivial", "bool"} -> 1
      [] t = "string" -> 32

alignof_T(t) ==
    CASE t \in {"int", "const int", "uint32_t"} -> 4
      [] t \in {"NonTrivial", "bool"} -> 1
      [] t = "string" -> 8

is_destructible(t) == t \in Types

\* default_constructible with a slip: the concept holds for every sized type
default_constructible_any(t) == t \in Types

\* ::new (p) T is well-formed
default_constructible(t) == t \in {"int", "string"}

\* ------------------------------------------------------------- arguments
\* An argument is an expression of type int (32 bits) or std::int64_t, from
\* neither of which a std::string can be constructed.  Its
\* value is kept as the four 16-bit digits of its two's complement pattern,
\* least significant first.
W == 2 ^ 16

IntArg(v) ==
    [ty |-> "int",
     d |-> <<v % W, (v \div W) % W,
             IF v < 0 THEN W - 1 ELSE 0, IF v < 0 THEN W - 1 ELSE 0>>]

Int64Arg(d) == [ty |-> "int64", d |-> d]

\* std::numeric_limits<std::int64_t>::max()
INT64_MAX == <<W - 1, W - 1, W - 1, (W \div 2) - 1>>

\* 2^32 + 1
TwoTo32Plus1 == <<1, 0, 1, 0>>

\* the value is representable in 32 bits: the upper half repeats the sign bit
in_int32_range(d) ==
    \/ d[2] < W \div 2 /\ d[3] = 0 /\ d[4] = 0
    \/ d[2] >= W \div 2 /\ d[3] = W - 1 /\ d[4] = W - 1

\* the integral conversion to a 32-bit int: the low 32 bits are kept
to_int32(a) ==
    IF a.d[2] >= W \div 2
    THEN a.d[1] + W * (a.d[2] - W)
    ELSE a.d[1] + W * a.d[2]

\* converting the argument to int inside a braced initializer narrows: the
\* argument is no constant expression there, so its type alone decides
narrows(a) == a.ty = "int64"

\* earlier variant: ::new (std::declval<void*>()) T(args...) is well-formed
constructible_from(t, args) ==
    CASE t \in {"int", "const int"} -> Len(args) <= 1
      [] t = "NonTrivial" -> Len(args) = 1
      [] t = "string" -> Len(args) = 0

\* static_cast<void*>(p) of a T* p is well-formed: it may not drop a const
voidable(t) == ~is_const(t)

\* ::new (static_cast<void*>(p)) T(args...) is well-formed
paren_constructible_from(t, args) ==
    /\ voidable(t)
    /\ CASE t \in {"int", "const int"} -> Len(args) <= 1
         [] t = "NonTrivial" -> Len(args) = 1
         [] t = "string" -> Len(args) = 0

\* brace_constructible_from with a slip: written as paren_constructible_from
brace_constructible_from_paren(t, args) == paren_constructible_from(t, args)

\* ::new (static_cast<void*>(p)) T{args...} is well-formed
brace_constructible_from(t, args) ==
    /\ voidable(t)
    /\ CASE t \in {"int", "const int"} ->
                Len(args) = 0 \/ (Len(args) = 1 /\ ~narrows(args[1]))
         [] t = "NonTrivial" -> Len(args) = 1 /\ ~narrows(args[1])
         [] t = "string" -> Len(args) = 0

\* the selected constructor is not noexcept and may throw
may_throw(t) == t = "string"

\* T(args...): value-initialization for an empty pack, else direct-initialization
direct_init(t, args) == IF Len(args) = 0 THEN 0 ELSE to_int32(args[1])

\* T{args...}: list-initialization
list_init(t, args) == IF Len(args) = 0 THEN 0 ELSE to_int32(args[1])

\* default-initialization with a slip: an int is zeroed
default_initialized_zero(t, old) == 0

\* `T` with no initializer: nothing is written for int, T() runs for a class
default_initialized(t, old) == IF t \in {"int", "const int"} THEN old ELSE 0

\* ------------------------------------------------------------------ state
VARIABLES
    T,              \* the payload type of the cell
    variant,        \* "earlier" or "later"
    SELF_DESTRUCT,  \* second template parameter of the earlier variant
    phase,          \* "unborn", "alive", "ended" or "failed" (constructor threw)
    cell,           \* the cell and the abstract machine's account of it
    nOps,           \* constructing, destroying and writing member operations
                    \* applied to the cell so far (accessors are not counted)
    destroyLog,     \* per explicit destroy() / destruct() call of the program:
                    \* the id of the object then within its lifetime (0: none)
    last,           \* the last operation and its inputs
    pre,            \* the cell before the last operation
    acc,            \* what the last operation gave, when it was an accessor
    doc             \* the program against the documented preconditions:
                    \* live: a construction succeeded and no destroy() or
                    \*       destruct() call followed it
                    \* ok: so far every construction was called with no value
                    \*     live and every destroy() / destruct() with one live
VARIABLES
    guarded,        \* the threads sharing the cell hold a lock around its use
    mutex,          \* the caller's lock: the thread holding it, or "free"
    pc,             \* per thread: its position in its use of the cell
    seen            \* per thread: whether it last found a value live
VARIABLES
    copy            \* a second cell, made or assigned from `cell` (NoCell: none)

vars ==
    <<T, variant, SELF_DESTRUCT, phase, cell, nOps, destroyLog, last, pre, acc, doc,
      guarded, mutex, pc, seen, copy>>

NoRet == [kind |-> "none", addr |-> 0, exc |-> NoExc]
VoidRet == [kind |-> "void", addr |-> 0, exc |-> NoExc]

\* object: the union's only member (m_t in the earlier variant), as a value
\* live: a T is within its lifetime in the storage
\* id: which successful construction made the object now in the storage (0: none)
\* ctorLog: the initializer form of each successful construction, in order
\* ctorCalls: constructor calls made, those that threw included
\* dtorLog: the id of the object each ~T() call was made on (0: no live object)
\* misuse: a destructor was skipped by constructing over a live non-trivial
\*         object, or ~T() ran with no object within its lifetime
\* destructCalls: calls of destruct() made, by the program or by the cell
NoCell ==
    [addr |-> 0, object |-> 0, live |-> FALSE, id |-> 0, ctorLog |-> <<>>,
     ctorCalls |-> 0, dtorLog |-> <<>>, ret |-> NoRet, misuse |-> FALSE,
     destructCalls |-> 0]

NoOp == [op |-> "none", args |-> <<>>, exc |-> NoExc, addr |-> 0, g0 |-> 0]

\* ------------------------------------------------------------------ layout
round_up(x, a) == ((x + a - 1) \div a) * a

Max(S) == CHOOSE x \in S : \A y \in S : y <= x

\* the alignment of a class is the strictest alignment of its members
alignof_class(l) == Max({alignof_T(l.members[i]) : i \in 1..Len(l.members)})

RECURSIVE struct_end(_, _)
\* where member n of a struct ends, each member placed at its alignment
struct_end(ms, n) ==
    IF n = 0 THEN 0 ELSE round_up(struct_end(ms, n - 1), alignof_T(ms[n])) + sizeof_T(ms[n])

\* the members of a union share the storage, those of a struct follow each other
sizeof_class(l) ==
    round_up(IF l.kind = "union"
             THEN Max({sizeof_T(l.members[i]) : i \in 1..Len(l.members)})
             ELSE struct_end(l.members, Len(l.members)),
             alignof_class(l))

\* maybe_uninit with a slip: the object is kept beside a flag that tells whether
\* it was constructed
maybe_uninit_layout_flagged == [kind |-> "struct", members |-> <<T, "bool">>]

\* union maybe_uninit { ... T object; };
maybe_uninit_layout == [kind |-> "union", members |-> <<T>>]

\* union maybe_uninit { T m_t; ... };  whatever SELF_DESTRUCT is
maybe_uninit_layout_20 == [kind |-> "union", members |-> <<T>>]

\* h: the kind of the expression the accessor was called on
\* kind: "pointer", "reference" or "span";  addr: what it designates (0: null)
\* const: the pointee, referent or element type is const
\* rvalue: the reference is an rvalue reference;  size: the extent of the span
\* value: the value the program read through the reference, when it read one
NoAcc ==
    [op |-> "none", h |-> "none", kind |-> "none", addr |-> 0, const |-> FALSE,
     rvalue |-> FALSE, size |-> 0, value |-> <<>>]

\* ----------------------------------------------------------------- handles
\* the expression a member is called on: cell, std::as_const(cell),
\* std::move(cell), std::move(std::as_const(cell))
HandleKinds == {"lvalue", "const lvalue", "rvalue", "const rvalue"}

handle_const(h) == h \in {"const lvalue", "const rvalue"}

handle_rvalue(h) == h \in {"rvalue", "const rvalue"}

\* what `this Self&& self` deduces Self to: an lvalue reference for an lvalue,
\* no reference for an rvalue; the const of the expression is kept
Self(h) == [const |-> handle_const(h), ref |-> ~handle_rvalue(h)]

\* std::is_reference_v<S> and std::is_const_v<std::remove_reference_t<S>>
const_ref(S) == S.ref /\ S.const

\* the type of self.object is const when self or the member is
object_const(h) == Self(h).const \/ is_const(T)

\* ------------------------------------------------------- library pieces
\* std::addressof(self.object): the member of a union lives at the union's address
addressof_object(c) == c.addr

\* placement new with a slip: the previous occupant is destroyed first, as an
\* assignment would
placement_new_over_destroyed(c, form, v, exc) ==
    LET d == IF c.live /\ ~is_trivially_destructible(T)
             THEN [c EXCEPT !.dtorLog = Append(@, c.id), !.live = FALSE]
             ELSE c
    IN IF exc # NoExc
       THEN [d EXCEPT !.ctorCalls = @ + 1, !.object = Indeterminate, !.live = FALSE,
                      !.ret = [kind |-> "throw", addr |-> 0, exc |-> exc]]
       ELSE [d EXCEPT !.ctorCalls = @ + 1, !.ctorLog = Append(@, form),
                      !.id = Len(c.ctorLog) + 1, !.object = v, !.live = TRUE,
                      !.ret = [kind |-> "ref", addr |-> addressof_object(c), exc |-> NoExc]]

\* ::new (static_cast<void*>(std::addressof(self.object))) T...  with form the
\* initializer's form ("default": T, "paren": T(args...), "brace": T{args...}),
\* v the value it produces and exc the exception the constructor throws (NoExc:
\* none).  No destructor runs for a previous occupant, whose storage is reused;
\* the expression yields a pointer to the new object.
placement_new(c, form, v, exc) ==
    IF exc # NoExc
    THEN [c EXCEPT !.ctorCalls = @ + 1, !.object = Indeterminate, !.live = FALSE,
                   !.misuse = @ \/ (c.live /\ ~is_trivially_destructible(T)),
                   !.ret = [kind |-> "throw", addr |-> 0, exc |-> exc]]
    ELSE [c EXCEPT !.ctorCalls = @ + 1, !.ctorLog = Append(@, form),
                   !.id = Len(c.ctorLog) + 1, !.object = v, !.live = TRUE,
                   !.misuse = @ \/ (c.live /\ ~is_trivially_destructible(T)),
                   !.ret = [kind |-> "ref", addr |-> addressof_object(c), exc |-> NoExc]]

\* T u = <rvalue reference to the payload>: the move constructor of T builds u
\* from the payload.  The payload of a class type stays a live object, valid
\* with a value v the library leaves unspecified; a scalar is copied.  Moving
\* from a payload that is not live is undefined: the storage of a class type
\* holds any v afterwards, and no lifetime starts or ends.
move_out_ends_lifetime(c, v) == [c EXCEPT !.live = FALSE, !.ret = NoRet]

move_out(c, v) ==
    [c EXCEPT !.object = IF is_trivially_destructible(T) THEN @ ELSE v,
              !.ret = NoRet]

\* std::destroy_at(std::addressof(object)): p->~T()
destroy_at(c) ==
    IF is_trivially_destructible(T)
    THEN [c EXCEPT !.live = FALSE, !.ret = VoidRet]
    ELSE [c EXCEPT !.live = FALSE, !.ret = VoidRet,
                   !.dtorLog = Append(@, IF c.live THEN c.id ELSE 0),
                   !.misuse = @ \/ ~c.live]

\* --------------------------------------------------------- later variant
\* maybe_uninit() with a slip: the union's member given an initializer, `T object{}`
maybe_uninit_value(a, g0) ==
    [NoCell EXCEPT !.addr = a, !.object = 0, !.live = TRUE, !.id = 1,
                   !.ctorLog = <<"paren">>, !.ctorCalls = 1]

\* constexpr maybe_uninit() noexcept {}
maybe_uninit(a, g0) == [NoCell EXCEPT !.addr = a, !.object = g0]

\* uninit<T>(): return maybe_uninit<T>();
uninit(a, g0) == maybe_uninit(a, g0)

default_init(c, exc) == placement_new(c, "default", default_initialized(T, c.object), exc)

\* paren_init with a slip: the arguments are not forwarded, `::new (p) T`
paren_init_default(c, args, exc) ==
    placement_new(c, "paren", default_initialized(T, c.object), exc)

\* paren_init with a slip: the constructor's exception is caught and the storage returned
paren_init_swallow(c, args, exc) ==
    LET r == placement_new(c, "paren", direct_init(T, args), exc)
    IN IF exc # NoExc
       THEN [r EXCEPT !.ret = [kind |-> "ref", addr |-> addressof_object(c), exc |-> NoExc]]
       ELSE r

paren_init(c, args, exc) == placement_new(c, "paren", direct_init(T, args), exc)

\* brace_init with a slip: the object is built in a temporary and a reference to
\* that returned
brace_init_dangling(c, args, exc) ==
    LET r == placement_new(c, "brace", list_init(T, args), exc)
    IN IF exc = NoExc THEN [r EXCEPT !.ret.addr = 0] ELSE r

brace_init(c, args, exc) == placement_new(c, "brace", list_init(T, args), exc)

\* ptr with a slip: a null pointer while no object is within its lifetime
ptr_null_if_dead(c) == IF c.live THEN addressof_object(c) ELSE 0

ptr(c) == addressof_object(c)

ref(c) == addressof_object(c)

\* auto* deduced from std::addressof(self.object)
ptr_type(h) ==
    [NoAcc EXCEPT !.op = "ptr", !.h = h, !.kind = "pointer",
                  !.const = object_const(h)]

\* ref with a slip: self.object is returned, an lvalue whatever Self is
ref_type_decayed(h) ==
    [NoAcc EXCEPT !.op = "ref", !.h = h, !.kind = "reference",
                  !.const = object_const(h)]

\* auto&& deduced from std::forward<Self>(self).object
ref_type(h) ==
    [NoAcc EXCEPT !.op = "ref", !.h = h, !.kind = "reference",
                  !.const = object_const(h), !.rvalue = ~Self(h).ref]

\* bytes with a slip: the span is laid over a copy of the object
bytes_of_copy(c, h) ==
    [NoAcc EXCEPT !.op = "bytes", !.h = h, !.kind = "span",
                  !.const = const_ref(Self(h)) \/ is_const(T),
                  !.size = sizeof_T(T)]

\* byte_type is std::byte const
byte_type_const(h) == const_ref(Self(h)) \/ is_const(T)

\* reinterpret_cast<byte_type*>(std::addressof(self.object)) is well-formed:
\* it may not drop a const
bytes_well_formed(h) == object_const(h) => byte_type_const(h)

\* std::span<byte_type, sizeof(T)>(reinterpret_cast<byte_type*>(...), sizeof(T))
bytes(c, h) ==
    [NoAcc EXCEPT !.op = "bytes", !.h = h, !.kind = "span",
                  !.addr = addressof_object(c), !.const = byte_type_const(h),
                  !.size = sizeof_T(T)]

\* destroy with a slip: the storage of a trivially destructible T is zeroed
destroy_scrub(c) ==
    IF ~is_trivially_destructible(T)
    THEN destroy_at(c)
    ELSE [c EXCEPT !.object = 0, !.ret = VoidRet]

\* destroy with a slip: std::destroy_at is called twice
destroy_twice(c) ==
    IF ~is_trivially_destructible(T)
    THEN destroy_at(destroy_at(c))
    ELSE [c EXCEPT !.ret = VoidRet]

\* destroy with a slip: the body was left empty
destroy_empty(c) == [c EXCEPT !.ret = VoidRet]

\* destroy with a slip: the condition of the earlier variant's destruct()
destroy_inverted(c) ==
    IF is_trivially_destructible(T) THEN destroy_at(c) ELSE [c EXCEPT !.ret = VoidRet]

destroy(c) ==
    IF ~is_trivially_destructible(T) THEN destroy_at(c) ELSE [c EXCEPT !.ret = VoidRet]

\* a constructor yields the cell, not the reference its body's call returned
ctor_result(c) == IF c.ret.kind = "throw" THEN c ELSE [c EXCEPT !.ret = NoRet]

\* the default_init_t constructor with a slip: it value-initializes, `T()`
maybe_uninit_default_init_t_value(a, g0, exc) ==
    ctor_result(placement_new(maybe_uninit(a, g0), "default", 0, exc))

maybe_uninit_default_init_t(a, g0, exc) ==
    ctor_result(default_init(maybe_uninit(a, g0), exc))

\* the paren_init_t constructor with a slip: the member is also given the
\* initializer, so the payload is constructed twice
maybe_uninit_paren_init_t_twice(a, g0, args, exc) ==
    ctor_result(paren_init(paren_init(maybe_uninit(a, g0), args, exc), args, exc))

maybe_uninit_paren_init_t(a, g0, args, exc) ==
    ctor_result(paren_init(maybe_uninit(a, g0), args, exc))

maybe_uninit_brace_init_t(a, g0, args, exc) ==
    ctor_result(brace_init(maybe_uninit(a, g0), args, exc))

\* default_init<T>(): return maybe_uninit<T>{default_init_t{}};
default_init_fn(a, g0, exc) == maybe_uninit_default_init_t(a, g0, exc)

\* paren_init<T>(args...): return maybe_uninit<T>{paren_init_t{}, args...};
paren_init_fn(a, g0, args, exc) == maybe_uninit_paren_init_t(a, g0, args, exc)

\* brace_init<T>(args...): return maybe_uninit<T>{brace_init_t{}, args...};
brace_init_fn(a, g0, args, exc) == maybe_uninit_brace_init_t(a, g0, args, exc)

\* what `T&& t` deduces T to for an argument of type arg.ty that is an
\* expression of kind k: an lvalue reference for an lvalue, no reference for
\* an rvalue; the const of the expression is kept
deduced(arg, k) == [base |-> arg.ty, const |-> handle_const(k), ref |-> ~handle_rvalue(k)]

\* detail::sized<D>: std::is_object_v<D>, which no reference type satisfies
sized(D) == ~D.ref

\* std::remove_reference_t<D>
remove_reference_t(D) == IF D.const THEN "const " \o D.base ELSE D.base

\* paren_init(T&& t) takes part in overload resolution: detail::sized T and
\* requires detail::paren_constructible_from<std::remove_reference_t<T>, T>
paren_init_deduced_ok(arg, k) ==
    /\ sized(deduced(arg, k))
    /\ remove_reference_t(deduced(arg, k)) \in Types
    /\ paren_constructible_from(remove_reference_t(deduced(arg, k)), <<arg>>)

\* brace_init(T&& t) takes part in overload resolution
brace_init_deduced_ok(arg, k) ==
    /\ sized(deduced(arg, k))
    /\ remove_reference_t(deduced(arg, k)) \in Types
    /\ brace_constructible_from(remove_reference_t(deduced(arg, k)), <<arg>>)

\* paren_init(t): return maybe_uninit<std::remove_reference_t<T>>{paren_init_t{}, t};
paren_init_deduced(a, g0, arg, exc) == maybe_uninit_paren_init_t(a, g0, <<arg>>, exc)

\* brace_init(t): return maybe_uninit<std::remove_reference_t<T>>{brace_init_t{}, t};
brace_init_deduced(a, g0, arg, exc) == maybe_uninit_brace_init_t(a, g0, <<arg>>, exc)

\* ~maybe_uninit() with a slip: the cell's destructor destroys the object
dtor_auto(c) == destroy_at(c)

\* constexpr ~maybe_uninit() = default;  /  constexpr ~maybe_uninit() {}
dtor(c) == [c EXCEPT !.ret = VoidRet]

\* -------------------------------------------------------- earlier variant
maybe_uninit_20(a, g0) == [NoCell EXCEPT !.addr = a, !.object = g0]

uninit_20(a, g0) == maybe_uninit_20(a, g0)

\* void default_init()
default_init_20(c, exc) ==
    LET r == placement_new(c, "default", default_initialized(T, c.object), exc)
    IN IF r.ret.kind = "throw" THEN r ELSE [r EXCEPT !.ret = VoidRet]

\* init with a slip: an empty pack default-initializes, `T` for `T()`
init_default(c, args, exc) ==
    LET r == placement_new(c, "paren",
                           IF Len(args) = 0
                           THEN default_initialized(T, c.object)
                           ELSE direct_init(T, args),
                           exc)
    IN IF r.ret.kind = "throw" THEN r ELSE [r EXCEPT !.ret = VoidRet]

\* constexpr void init(Args&&...): std::construct_at(std::addressof(m_t), args...)
init(c, args, exc) ==
    LET r == placement_new(c, "paren", direct_init(T, args), exc)
    IN IF r.ret.kind = "throw" THEN r ELSE [r EXCEPT !.ret = VoidRet]

ptr_20(c) == addressof_object(c)

assume_init(c) == addressof_object(c)

\* T* ptr()  /  T const* ptr() const
ptr_type_20(h) ==
    [NoAcc EXCEPT !.op = "ptr", !.h = h, !.kind = "pointer",
                  !.const = handle_const(h) \/ is_const(T)]

\* the overload of assume_init() an expression of kind h selects: a const
\* rvalue binds to `const&`, there being no `const&&` overload
assume_init_overload(h) ==
    CASE h = "lvalue" -> "&"
      [] h = "const lvalue" -> "const&"
      [] h = "rvalue" -> "&&"
      [] h = "const rvalue" -> "const&"

\* T& assume_init() &  /  T const& assume_init() const&  /  T&& assume_init() &&
assume_init_type(h) ==
    [NoAcc EXCEPT !.op = "assume_init", !.h = h, !.kind = "reference",
                  !.const = assume_init_overload(h) = "const&" \/ is_const(T),
                  !.rvalue = assume_init_overload(h) = "&&"]

\* constexpr void destruct()
destruct(c) ==
    LET called == [c EXCEPT !.destructCalls = @ + 1, !.ret = VoidRet]
    IN IF is_destructible(T)
       THEN IF is_trivially_destructible(T) THEN destroy_at(called) ELSE called
       ELSE called

maybe_uninit_default_init_tag(a, g0, exc) ==
    ctor_result(default_init_20(maybe_uninit_20(a, g0), exc))

maybe_uninit_value_init_tag(a, g0, exc) ==
    ctor_result(init(maybe_uninit_20(a, g0), <<>>, exc))

maybe_uninit_args(a, g0, args, exc) ==
    ctor_result(init(maybe_uninit_20(a, g0), args, exc))

\* default_init<T, SELF_DESTRUCT>(): return maybe_uninit<T, SELF_DESTRUCT>(default_init_tag);
default_init_fn_20(a, g0, exc) == maybe_uninit_default_init_tag(a, g0, exc)

\* init<T, SELF_DESTRUCT>(): return maybe_uninit<T, SELF_DESTRUCT>(value_init_tag);
init_fn(a, g0, exc) == maybe_uninit_value_init_tag(a, g0, exc)

\* init<T, SELF_DESTRUCT>(arg, args...):
\*     return maybe_uninit<std::remove_cvref_t<T>, SELF_DESTRUCT>(arg, args...);
init_fn_args(a, g0, args, exc) == maybe_uninit_args(a, g0, args, exc)

\* std::remove_cvref_t<D>
remove_cvref_t(D) == D.base

\* init(T&& t) and init_auto(T&& t) compile:
\* static_assert(detail::constructible_from<std::remove_cvref_t<T>, T>)
init_deduced_ok(arg, k) ==
    /\ remove_cvref_t(deduced(arg, k)) \in Types
    /\ constructible_from(remove_cvref_t(deduced(arg, k)), <<arg>>)

\* init(t): return maybe_uninit<std::remove_cvref_t<T>, SELF_DESTRUCT>(t);
init_deduced(a, g0, arg, exc) == maybe_uninit_args(a, g0, <<arg>>, exc)

\* init_auto(t): return maybe_uninit<std::remove_cvref_t<T>, true>(t);
init_auto(a, g0, arg, exc) == maybe_uninit_args(a, g0, <<arg>>, exc)

\* ~maybe_uninit() with a slip: destruct() is called only on a live value
dtor_20_if_live(c) ==
    IF is_trivially_destructible(T)
    THEN [c EXCEPT !.ret = VoidRet]
    ELSE IF SELF_DESTRUCT /\ is_destructible(T) /\ c.live
         THEN destruct(c)
         ELSE [c EXCEPT !.ret = VoidRet]

\* ~maybe_uninit() requires is_trivially_destructible_v<T> = default;
\* constexpr ~maybe_uninit() { if constexpr (SELF_DESTRUCT) destruct(); }
dtor_20(c) ==
    IF is_trivially_destructible(T)
    THEN [c EXCEPT !.ret = VoidRet]
    ELSE IF SELF_DESTRUCT /\ is_destructible(T)
         THEN destruct(c)
         ELSE [c EXCEPT !.ret = VoidRet]

\* ---------------------------------------------------------------- inputs
\* the int arguments, 42 of the documentation's examples among them, and the
\* std::int64_t arguments outside the range of int
IntArgs == {IntArg(v) : v \in Values \cup {42}}

Int64Args == {Int64Arg(INT64_MAX), Int64Arg(TwoTo32Plus1)}

ArgLists == {<<>>} \cup {<<a>> : a \in IntArgs \cup Int64Args}

\* what the selected constructor may do: return, or throw one of Exceptions
Outcomes == IF may_throw(T) THEN {NoExc} \cup Exceptions ELSE {NoExc}

Op(name, args, exc, a, g0) ==
    [op |-> name, args |-> args, exc |-> exc, addr |-> a, g0 |-> g0]

\* ------------------------------------------------------------------ Init
Threads == {"A", "B"}

\* the cell is not shared
OneThread ==
    /\ guarded = FALSE
    /\ mutex = "free"
    /\ pc = [t \in Threads |-> "none"]
    /\ seen = [t \in Threads |-> FALSE]

Init ==
    /\ T \in Types
    /\ variant \in {"earlier", "later"}
    /\ SELF_DESTRUCT \in (IF variant = "earlier" THEN BOOLEAN ELSE {FALSE})
    /\ phase = "unborn"
    /\ cell = NoCell
    /\ nOps = 0
    /\ destroyLog = <<>>
    /\ last = NoOp
    /\ pre = NoCell
    /\ acc = NoAcc
    /\ doc = [live |-> FALSE, ok |-> TRUE]
    /\ OneThread
    /\ copy = NoCell

Config == UNCHANGED <<T, variant, SELF_DESTRUCT>>

\* no second cell is made or written
OneCell == UNCHANGED copy

\* the cell is used by one thread
SingleThreaded == UNCHANGED <<guarded, mutex, pc, seen>>

\* the cell comes into existence with `c`, unless its constructor threw
Born(name, args, exc, a, g0, c) ==
    /\ phase = "unborn"
    /\ phase' = IF c.ret.kind = "throw" THEN "failed" ELSE "alive"
    /\ cell' = c
    /\ pre' = cell
    /\ UNCHANGED <<nOps, destroyLog>>
    /\ last' = Op(name, args, exc, a, g0)
    /\ acc' = NoAcc
    /\ doc' = [doc EXCEPT !.live = c.live]
    /\ Config
    /\ OneCell
    /\ SingleThreaded

Constructions == {"default_init", "paren_init", "brace_init", "init"}

\* a member operation takes the cell to `c`
MoveOuts == {"move(ref)", "move(assume_init)"}

\* a member operation is applied to the cell and leaves it as `c`
Applied(name, args, exc, c) ==
    /\ phase = "alive"
    /\ nOps < MaxOps
    /\ cell' = c
    /\ pre' = cell
    /\ nOps' = nOps + 1
    /\ destroyLog' = IF name \in {"destroy", "destruct"}
                      THEN Append(destroyLog, IF cell.live THEN cell.id ELSE 0)
                      ELSE destroyLog
    /\ last' = Op(name, args, exc, cell.addr, 0)
    /\ acc' = NoAcc
    /\ doc' = CASE name \in Constructions ->
                     [live |-> c.ret.kind # "throw", ok |-> doc.ok /\ ~doc.live]
                 [] name \in {"destroy", "destruct"} ->
                     [live |-> FALSE, ok |-> doc.ok /\ doc.live]
                 [] name \in MoveOuts ->
                     [live |-> doc.live, ok |-> doc.ok /\ doc.live]
                 [] OTHER -> doc
    /\ phase' = phase
    /\ Config
    /\ OneCell

Member(name, args, exc, c) ==
    /\ Applied(name, args, exc, c)
    /\ SingleThreaded

\* an accessor gives `r` and leaves the cell alone
Access(name, r) ==
    /\ phase = "alive"
    /\ acc' = r
    /\ last' = Op(name, <<>>, NoExc, cell.addr, 0)
    /\ pre' = cell
    /\ UNCHANGED <<phase, cell, nOps, destroyLog, doc>>
    /\ Config
    /\ OneCell
    /\ SingleThreaded

\* ------------------------------------------------- actions, later variant
Create ==
    /\ variant = "later"
    /\ \E a \in Addrs, g0 \in Values :
          Born("maybe_uninit", <<>>, NoExc, a, g0, maybe_uninit(a, g0))

CreateUninit ==
    /\ variant = "later"
    /\ \E a \in Addrs, g0 \in Values :
          Born("uninit", <<>>, NoExc, a, g0, uninit(a, g0))

CreateDefaultInitT ==
    /\ variant = "later"
    /\ default_constructible(T)
    /\ \E a \in Addrs, g0 \in Values, exc \in Outcomes :
          Born("maybe_uninit(default_init_t)", <<>>, exc, a, g0,
               maybe_uninit_default_init_t(a, g0, exc))

CreateParenInitT ==
    /\ variant = "later"
    /\ \E a \in Addrs, g0 \in Values, args \in ArgLists, exc \in Outcomes :
            /\ paren_constructible_from(T, args)
            /\ Born("maybe_uninit(paren_init_t)", args, exc, a, g0,
                    maybe_uninit_paren_init_t(a, g0, args, exc))

CreateBraceInitT ==
    /\ variant = "later"
    /\ \E a \in Addrs, g0 \in Values, args \in ArgLists, exc \in Outcomes :
            /\ brace_constructible_from(T, args)
            /\ Born("maybe_uninit(brace_init_t)", args, exc, a, g0,
                    maybe_uninit_brace_init_t(a, g0, args, exc))

FreeDefaultInit ==
    /\ variant = "later"
    /\ default_constructible(T)
    /\ \E a \in Addrs, g0 \in Values, exc \in Outcomes :
          Born("default_init<T>()", <<>>, exc, a, g0, default_init_fn(a, g0, exc))

FreeParenInit ==
    /\ phase = "unborn"
    /\ variant = "later"
    /\ \E a \in Addrs, g0 \in Values, args \in ArgLists, exc \in Outcomes :
          /\ paren_constructible_from(T, args)
          /\ Born("paren_init<T>()", args, exc, a, g0, paren_init_fn(a, g0, args, exc))

FreeBraceInit ==
    /\ phase = "unborn"
    /\ variant = "later"
    /\ \E a \in Addrs, g0 \in Values, args \in ArgLists, exc \in Outcomes :
          /\ brace_constructible_from(T, args)
          /\ Born("brace_init<T>()", args, exc, a, g0, brace_init_fn(a, g0, args, exc))

\* auto c = mem::paren_init(t): the payload type of c is deduced from t
FreeParenInitDeduced ==
    /\ phase = "unborn"
    /\ variant = "later"
    /\ \E a \in Addrs, g0 \in Values, arg \in IntArgs \cup Int64Args,
          k \in HandleKinds, exc \in Outcomes :
          /\ paren_init_deduced_ok(arg, k)
          /\ T = remove_reference_t(deduced(arg, k))
          /\ Born("paren_init(t)", <<arg>>, exc, a, g0, paren_init_deduced(a, g0, arg, exc))

FreeBraceInitDeduced ==
    /\ phase = "unborn"
    /\ variant = "later"
    /\ \E a \in Addrs, g0 \in Values, arg \in IntArgs \cup Int64Args,
          k \in HandleKinds, exc \in Outcomes :
          /\ brace_init_deduced_ok(arg, k)
          /\ T = remove_reference_t(deduced(arg, k))
          /\ Born("brace_init(t)", <<arg>>, exc, a, g0, brace_init_deduced(a, g0, arg, exc))

DefaultInit ==
    /\ variant = "later"
    /\ default_constructible(T)
    /\ \E exc \in Outcomes :
          Member("default_init", <<>>, exc, default_init(cell, exc))

ParenInit ==
    /\ variant = "later"
    /\ \E args \in ArgLists, exc \in Outcomes :
          /\ paren_constructible_from(T, args)
          /\ Member("paren_init", args, exc, paren_init(cell, args, exc))

BraceInit ==
    /\ variant = "later"
    /\ \E args \in ArgLists, exc \in Outcomes :
          /\ brace_constructible_from(T, args)
          /\ Member("brace_init", args, exc, brace_init(cell, args, exc))

Destroy ==
    /\ variant = "later"
    /\ Member("destroy", <<>>, NoExc, destroy(cell))

Ptr ==
    /\ variant = "later"
    /\ \E h \in HandleKinds :
          Access("ptr", [ptr_type(h) EXCEPT !.addr = ptr(cell)])

Ref ==
    /\ variant = "later"
    /\ \E h \in HandleKinds :
          Access("ref", [ref_type(h) EXCEPT !.addr = ref(cell)])

\* T u = std::move(cell).ref();
MoveOut ==
    /\ variant = "later"
    /\ \E v \in Values :
          /\ is_trivially_destructible(T) => v = 0
          /\ Member("move(ref)", <<>>, NoExc, move_out(cell, v))

Bytes ==
    /\ variant = "later"
    /\ \E h \in HandleKinds :
          /\ bytes_well_formed(h)
          /\ Access("bytes", bytes(cell, h))

\* ------------------------------------------------ actions, earlier variant
Create20 ==
    /\ variant = "earlier"
    /\ \E a \in Addrs, g0 \in Values :
          Born("maybe_uninit", <<>>, NoExc, a, g0, maybe_uninit_20(a, g0))

CreateUninit20 ==
    /\ variant = "earlier"
    /\ \E a \in Addrs, g0 \in Values :
          Born("uninit", <<>>, NoExc, a, g0, uninit_20(a, g0))

CreateDefaultInitTag ==
    /\ variant = "earlier"
    /\ default_constructible(T)
    /\ \E a \in Addrs, g0 \in Values, exc \in Outcomes :
          Born("maybe_uninit(default_init_tag)", <<>>, exc, a, g0,
               maybe_uninit_default_init_tag(a, g0, exc))

CreateValueInitTag ==
    /\ variant = "earlier"
    /\ default_constructible(T)
    /\ \E a \in Addrs, g0 \in Values, exc \in Outcomes :
          Born("maybe_uninit(value_init_tag)", <<>>, exc, a, g0,
               maybe_uninit_value_init_tag(a, g0, exc))

CreateArgs ==
    /\ variant = "earlier"
    /\ \E a \in Addrs, g0 \in Values, args \in ArgLists \ {<<>>}, exc \in Outcomes :
            /\ constructible_from(T, args)
            /\ Born("maybe_uninit(args)", args, exc, a, g0,
                    maybe_uninit_args(a, g0, args, exc))

FreeDefaultInit20 ==
    /\ variant = "earlier"
    /\ default_constructible(T)
    /\ \E a \in Addrs, g0 \in Values, exc \in Outcomes :
          Born("default_init<T>()", <<>>, exc, a, g0, default_init_fn_20(a, g0, exc))

FreeInit ==
    /\ phase = "unborn"
    /\ variant = "earlier"
    /\ default_constructible(T)
    /\ \E a \in Addrs, g0 \in Values, exc \in Outcomes :
          Born("init<T>()", <<>>, exc, a, g0, init_fn(a, g0, exc))

\* the cell made is a maybe_uninit<std::remove_cvref_t<T>, SELF_DESTRUCT>, which
\* does not convert to the return type when T is const
FreeInitArgs ==
    /\ phase = "unborn"
    /\ variant = "earlier"
    /\ ~is_const(T)
    /\ \E a \in Addrs, g0 \in Values, args \in ArgLists \ {<<>>}, exc \in Outcomes :
          /\ constructible_from(T, args)
          /\ Born("init<T>(args)", args, exc, a, g0, init_fn_args(a, g0, args, exc))

\* auto c = mem::init(t): the payload type of c is deduced from t
FreeInitDeduced ==
    /\ phase = "unborn"
    /\ variant = "earlier"
    /\ \E a \in Addrs, g0 \in Values, arg \in IntArgs \cup Int64Args,
          k \in HandleKinds, exc \in Outcomes :
          /\ init_deduced_ok(arg, k)
          /\ T = remove_cvref_t(deduced(arg, k))
          /\ Born("init(t)", <<arg>>, exc, a, g0, init_deduced(a, g0, arg, exc))

\* auto c = mem::init_auto(t): c is a maybe_uninit<std::remove_cvref_t<T>, true>
InitAuto ==
    /\ phase = "unborn"
    /\ variant = "earlier"
    /\ SELF_DESTRUCT
    /\ \E a \in Addrs, g0 \in Values, arg \in IntArgs \cup Int64Args,
          k \in HandleKinds, exc \in Outcomes :
          /\ init_deduced_ok(arg, k)
          /\ T = remove_cvref_t(deduced(arg, k))
          /\ Born("init_auto(t)", <<arg>>, exc, a, g0, init_auto(a, g0, arg, exc))

DefaultInit20 ==
    /\ variant = "earlier"
    /\ default_constructible(T)
    /\ \E exc \in Outcomes :
          Member("default_init", <<>>, exc, default_init_20(cell, exc))

InitOp ==
    /\ variant = "earlier"
    /\ \E args \in ArgLists, exc \in Outcomes :
          /\ constructible_from(T, args)
          /\ Member("init", args, exc, init(cell, args, exc))

Destruct ==
    /\ variant = "earlier"
    /\ is_destructible(T)
    /\ Member("destruct", <<>>, NoExc, destruct(cell))

Ptr20 ==
    /\ variant = "earlier"
    /\ \E h \in HandleKinds :
          Access("ptr", [ptr_type_20(h) EXCEPT !.addr = ptr_20(cell)])

AssumeInit ==
    /\ variant = "earlier"
    /\ \E h \in HandleKinds :
          Access("assume_init", [assume_init_type(h) EXCEPT !.addr = assume_init(cell)])

\* T u = std::move(cell).assume_init();
MoveOut20 ==
    /\ variant = "earlier"
    /\ \E v \in Values :
          /\ is_trivially_destructible(T) => v = 0
          /\ Member("move(assume_init)", <<>>, NoExc, move_out(cell, v))

\* ------------------------------------------------------- end of lifetime
\* the cell's own lifetime ends: ~maybe_uninit() runs
Teardown ==
    /\ phase = "alive"
    /\ phase' = "ended"
    /\ cell' = IF variant = "later" THEN dtor(cell) ELSE dtor_20(cell)
    /\ pre' = cell
    /\ UNCHANGED <<nOps, destroyLog>>
    /\ last' = Op("~maybe_uninit", <<>>, NoExc, cell.addr, 0)
    /\ acc' = NoAcc
    /\ doc' = doc
    /\ Config
    /\ OneCell
    /\ SingleThreaded

Next ==
    \/ Create
    \/ CreateUninit
    \/ CreateDefaultInitT
    \/ CreateParenInitT
    \/ CreateBraceInitT
    \/ FreeDefaultInit
    \/ FreeParenInit
    \/ FreeBraceInit
    \/ FreeParenInitDeduced
    \/ FreeBraceInitDeduced
    \/ DefaultInit
    \/ ParenInit
    \/ BraceInit
    \/ Destroy
    \/ Ptr
    \/ Ref
    \/ Bytes
    \/ Create20
    \/ CreateUninit20
    \/ CreateDefaultInitTag
    \/ CreateValueInitTag
    \/ CreateArgs
    \/ FreeDefaultInit20
    \/ FreeInit
    \/ FreeInitArgs
    \/ FreeInitDeduced
    \/ InitAuto
    \/ DefaultInit20
    \/ InitOp
    \/ Destruct
    \/ Ptr20
    \/ AssumeInit
    \/ Teardown

Spec == Init /\ [][Next]_vars

\* ----------------------------------------------------------------- types
TypeOK ==
    /\ T \in Types
    /\ variant \in {"earlier", "later"}
    /\ SELF_DESTRUCT \in BOOLEAN
    /\ phase \in {"unborn", "alive", "ended", "failed"}
    /\ cell.object \in Int
    /\ cell.live \in BOOLEAN
    /\ cell.ctorCalls <= MaxOps + 1
    /\ nOps \in 0..MaxOps
    /\ acc.h \in HandleKinds \cup {"none"}
    /\ doc.live \in BOOLEAN /\ doc.ok \in BOOLEAN
    /\ Len(destroyLog) <= nOps

\* ------------------------------------------- the object representation
\* A program that uses a cell of std::uint32_t through its bytes, as the
\* documentation's example does: the cell's object is kept as the four bytes
\* of its storage, in address order, and a std::uint32_t value as its two
\* 16-bit digits, least significant first.

\* the bytes of the documentation's examples: 0x01, 0x23, 0x45, 0x67, 0xFF
U32Bytes == {1, 35, 69, 103, 255}

\* the byte patterns the program writes, {0x67, 0x45, 0x23, 0x01} among them
U32Patterns ==
    {<<103, 69, 35, 1>>}
        \cup {<<a, b, c, d>> : a \in {1, 255}, b \in {1, 255}, c \in {1, 255}, d \in {1, 255}}

\* the value of the std::uint32_t whose object representation is m, on the
\* little-endian target the documentation assumes
load_u32(m) == <<m[1] + 256 * m[2], m[3] + 256 * m[4]>>

\* writing the bytes p through the span s: element i of the span is the byte
\* at offset i of what the span is laid over
span_write(c, s, p) ==
    [c EXCEPT !.object = [i \in 1..Len(c.object) |->
                             IF s.addr = addressof_object(c) /\ i <= s.size /\ i <= Len(p)
                             THEN p[i]
                             ELSE c.object[i]],
              !.ret = VoidRet]

InitBytes ==
    /\ T = "uint32_t"
    /\ variant = "later"
    /\ SELF_DESTRUCT = FALSE
    /\ phase = "unborn"
    /\ cell = NoCell
    /\ nOps = 0
    /\ destroyLog = <<>>
    /\ last = NoOp
    /\ pre = NoCell
    /\ acc = NoAcc
    /\ doc = [live |-> FALSE, ok |-> TRUE]
    /\ OneThread
    /\ copy = NoCell

\* auto j = mem::uninit<std::uint32_t>();
U32Uninit ==
    \E a \in Addrs, g0 \in U32Patterns :
        Born("uninit", <<>>, NoExc, a, g0, uninit(a, g0))

\* std::ranges::uninitialized_fill(j.bytes(), std::byte{b});
U32Fill ==
    \E b \in U32Bytes, h \in HandleKinds :
        /\ bytes_well_formed(h)
        /\ ~bytes(cell, h).const
        /\ Member("uninitialized_fill", <<b, b, b, b>>, NoExc,
                  span_write(cell, bytes(cell, h), <<b, b, b, b>>))

\* std::ranges::copy(p, j.bytes().begin());
U32Copy ==
    \E p \in U32Patterns, h \in HandleKinds :
        /\ bytes_well_formed(h)
        /\ ~bytes(cell, h).const
        /\ Member("copy", p, NoExc, span_write(cell, bytes(cell, h), p))

\* j.ref() is read
U32Ref ==
    /\ phase = "alive"
    /\ \E h \in HandleKinds :
          acc' = [ref_type(h) EXCEPT !.addr = ref(cell), !.value = load_u32(cell.object)]
    /\ UNCHANGED <<phase, cell, nOps, destroyLog, last, pre, doc>>
    /\ Config
    /\ OneCell
    /\ SingleThreaded

NextBytes ==
    \/ U32Uninit
    \/ U32Fill
    \/ U32Copy
    \/ U32Ref

SpecBytes == InitBytes /\ [][NextBytes]_vars

\* ------------------------------------------------ moving the payload out
\* a program that constructs values in a cell, moves them out and destroys them
NextMove ==
    \/ Create
    \/ CreateParenInitT
    \/ ParenInit
    \/ BraceInit
    \/ MoveOut
    \/ Destroy
    \/ Create20
    \/ CreateArgs
    \/ InitOp
    \/ MoveOut20
    \/ Destruct
    \/ Teardown

SpecMove == Init /\ [][NextMove]_vars

\* ------------------------------------ copying, moving and assigning a cell
SpecialMembers == {"copy constructor", "move constructor", "copy assignment", "move assignment"}

\* T's own special member m is trivial.  An int or a const int is copied
\* bytewise and a const int cannot be assigned; NonTrivial declares a
\* constructor and a destructor only, so its copy operations are the implicit,
\* trivial ones (and stand in for the moves); std::string's are user-provided.
has_trivial(t, m) ==
    IF m \in {"copy constructor", "move constructor"}
    THEN t \in {"int", "const int", "uint32_t", "NonTrivial"}
    ELSE t \in {"int", "uint32_t", "NonTrivial"}

\* std::is_trivially_copy_constructible_v<T>, ..._move_constructible_v,
\* ..._copy_assignable_v, ..._move_assignable_v: the two for construction ask
\* for a trivial destructor as well
is_trivially(t, m) ==
    IF m \in {"copy constructor", "move constructor"}
    THEN has_trivial(t, m) /\ is_trivially_destructible(t)
    ELSE has_trivial(t, m)

\* earlier variant: each special member is declared `requires
\* std::is_trivially_..._v<T> = default`, and no other is declared implicitly
special_member_20(t, m) == is_trivially(t, m)

\* later variant: the union declares none of the four, so each is implicit,
\* and deleted when the member's is not trivial; the declared destructors
\* leave no implicit move, and an rvalue cell is copied
special_member(t, m) ==
    CASE m \in {"copy constructor", "move constructor"} -> has_trivial(t, "copy constructor")
      [] m \in {"copy assignment", "move assignment"} -> has_trivial(t, "copy assignment")

\* the expression that uses special member m compiles
copyable(m) ==
    IF variant = "earlier" THEN special_member_20(T, m) ELSE special_member(T, m)

\* where a second cell can be
CopyAddrs == {a + NumAddrs : a \in Addrs}

\* a defaulted copy with a slip: the member is copied by T's copy constructor
trivially_copied_by_constructor(src, a) ==
    [NoCell EXCEPT !.addr = a, !.object = src.object, !.live = TRUE,
                   !.ctorCalls = 1, !.ctorLog = <<"paren">>, !.id = 1]

\* the defaulted (trivial) copy or move constructor of the union: the object
\* representation of `src` is copied into the new cell at a
trivially_copied(src, a) ==
    [NoCell EXCEPT !.addr = a, !.object = src.object, !.live = src.live]

\* the defaulted (trivial) copy or move assignment of the union
trivially_assigned(dst, src) ==
    [dst EXCEPT !.object = src.object, !.live = src.live]

\* special member m of the cell is used with `cell` as its argument and makes
\* or leaves the second cell as d
Copied(m, d) ==
    /\ phase = "alive"
    /\ copyable(m)
    /\ copy' = d
    /\ last' = Op(m, <<>>, NoExc, d.addr, 0)
    /\ pre' = cell
    /\ acc' = NoAcc
    /\ UNCHANGED <<phase, cell, nOps, destroyLog, doc>>
    /\ Config
    /\ SingleThreaded

\* maybe_uninit<T> b = a;
CopyConstruct ==
    /\ copy = NoCell
    /\ \E a \in CopyAddrs : Copied("copy constructor", trivially_copied(cell, a))

\* maybe_uninit<T> b = std::move(a);
MoveConstruct ==
    /\ copy = NoCell
    /\ \E a \in CopyAddrs : Copied("move constructor", trivially_copied(cell, a))

\* b = a;
CopyAssign ==
    /\ copy # NoCell
    /\ Copied("copy assignment", trivially_assigned(copy, cell))

\* b = std::move(a);
MoveAssign ==
    /\ copy # NoCell
    /\ Copied("move assignment", trivially_assigned(copy, cell))

NextCopy ==
    \/ Create
    \/ Create20
    \/ CreateParenInitT
    \/ CreateArgs
    \/ ParenInit
    \/ InitOp
    \/ Destroy
    \/ Destruct
    \/ CopyConstruct
    \/ MoveConstruct
    \/ CopyAssign
    \/ MoveAssign

SpecCopy == Init /\ [][NextCopy]_vars

\* ------------------------------------------- two threads sharing one cell
\* The member functions take no lock and test nothing before they act
\* (default_init, paren_init, brace_init, destroy): what keeps two threads
\* apart is the callers' business.  Each thread here respects the liveness
\* preconditions as a caller can: it finds out whether a value is live, then
\* constructs if none is and destroys or reads the payload if one is.  When
\* `guarded`, it does both steps holding the callers' lock.
InitThreads ==
    /\ T \in {"int", "NonTrivial"}
    /\ variant = "later"
    /\ SELF_DESTRUCT = FALSE
    /\ phase = "alive"
    /\ \E a \in Addrs, g0 \in Values :
          /\ cell = uninit(a, g0)
          /\ last = Op("uninit", <<>>, NoExc, a, g0)
    /\ nOps = 0
    /\ destroyLog = <<>>
    /\ pre = NoCell
    /\ acc = NoAcc
    /\ doc = [live |-> FALSE, ok |-> TRUE]
    /\ guarded \in BOOLEAN
    /\ mutex = "free"
    /\ pc = [t \in Threads |-> "idle"]
    /\ seen = [t \in Threads |-> FALSE]
    /\ copy = NoCell

\* the caller's std::lock_guard around its use of the cell
Lock(t) ==
    /\ guarded
    /\ pc[t] = "idle"
    /\ mutex = "free"
    /\ mutex' = t
    /\ pc' = [pc EXCEPT ![t] = "locked"]
    /\ UNCHANGED <<phase, cell, nOps, destroyLog, last, pre, acc, doc, guarded, seen>>
    /\ Config
    /\ OneCell

Unlock(t) ==
    /\ guarded
    /\ pc[t] = "done"
    /\ mutex' = "free"
    /\ pc' = [pc EXCEPT ![t] = "idle"]
    /\ UNCHANGED <<phase, cell, nOps, destroyLog, last, pre, acc, doc, guarded, seen>>
    /\ Config
    /\ OneCell

\* the thread finds out whether the cell holds a value, from the program's own
\* account of it: the cell has none to ask
Observe(t) ==
    /\ pc[t] = (IF guarded THEN "locked" ELSE "idle")
    /\ seen' = [seen EXCEPT ![t] = doc.live]
    /\ pc' = [pc EXCEPT ![t] = "decided"]
    /\ UNCHANGED <<phase, cell, nOps, destroyLog, last, pre, acc, doc, guarded, mutex>>
    /\ Config
    /\ OneCell

\* the thread's call has returned
Returned(t) ==
    /\ pc' = [pc EXCEPT ![t] = IF guarded THEN "done" ELSE "idle"]
    /\ UNCHANGED <<guarded, mutex, seen>>

\* cell.paren_init(args...) by thread t, which found no value live
ThreadParenInit(t) ==
    /\ pc[t] = "decided"
    /\ ~seen[t]
    /\ \E args \in ArgLists, exc \in Outcomes :
          /\ paren_constructible_from(T, args)
          /\ Applied("paren_init", args, exc, paren_init(cell, args, exc))
    /\ Returned(t)

\* cell.destroy() by thread t, which found a value live
ThreadDestroy(t) ==
    /\ pc[t] = "decided"
    /\ seen[t]
    /\ Applied("destroy", <<>>, NoExc, destroy(cell))
    /\ Returned(t)

\* T u = std::move(cell).ref() by thread t, which found a value live
ThreadMoveOut(t) ==
    /\ pc[t] = "decided"
    /\ seen[t]
    /\ \E v \in Values :
          /\ is_trivially_destructible(T) => v = 0
          /\ Applied("move(ref)", <<>>, NoExc, move_out(cell, v))
    /\ Returned(t)

NextThreads ==
    \E t \in Threads :
        \/ Lock(t)
        \/ Observe(t)
        \/ ThreadParenInit(t)
        \/ ThreadDestroy(t)
        \/ ThreadMoveOut(t)
        \/ Unlock(t)

SpecThreads == InitThreads /\ [][NextThreads]_vars

\* ---------------------------------------------------------------- claims
NonTrivialT == ~is_trivially_destructible(T)

\* the case of C1
C1_DestroyCase ==
    /\ variant = "later"
    /\ last.op = "destroy"
    /\ pre.live
    /\ NonTrivialT

C1_Reusable(c) ==
    /\ default_constructible(T) =>
          LET r == default_init(c, NoExc)
          IN r.live /\ r.misuse = c.misuse /\ r.dtorLog = c.dtorLog
    /\ \A args \in ArgLists :
          /\ paren_constructible_from(T, args) =>
                LET r == paren_init(c, args, NoExc)
                IN /\ r.live /\ r.misuse = c.misuse /\ r.dtorLog = c.dtorLog
                   /\ r.object = direct_init(T, args)
          /\ brace_constructible_from(T, args) =>
                LET r == brace_init(c, args, NoExc)
                IN /\ r.live /\ r.misuse = c.misuse /\ r.dtorLog = c.dtorLog
                   /\ r.object = list_init(T, args)

\* C1: in the later variant, destroy() on a cell holding a live value of a
\* non-trivially-destructible T calls ~T() exactly once, on that value; after it
\* no value is live, and every construction operation T admits can be applied
\* again, giving a live value without skipping or repeating a destructor.
C1_DestroyInvokesDestructorOnce ==
    C1_DestroyCase =>
        /\ cell.dtorLog = Append(pre.dtorLog, pre.id)
        /\ ~cell.live
        /\ cell.misuse = pre.misuse
        /\ C1_Reusable(cell)

C1_Witness == C1_DestroyCase /\ ~pre.misuse /\ T = "NonTrivial"

\* the case of C2
C2_DestructCase ==
    /\ variant = "earlier"
    /\ last.op = "destruct"
    /\ pre.live
    /\ NonTrivialT

\* C2: in the earlier variant, destruct() on a cell holding a live value of a
\* non-trivially-destructible T calls ~T() exactly once, on that value.
C2_DestructInvokesDestructorOnce ==
    C2_DestructCase => cell.dtorLog = Append(pre.dtorLog, pre.id)

\* the case of C3
C3_AutoDestructCase ==
    /\ variant = "earlier"
    /\ SELF_DESTRUCT
    /\ NonTrivialT
    /\ phase = "ended"
    /\ nOps = 1
    /\ cell.ctorLog = <<"paren">>
    /\ cell.ctorCalls = 1
    /\ destroyLog = <<>>

\* C3: with SELF_DESTRUCT set and a non-trivially-destructible T, one value
\* constructed with init(...) and no explicit destruct(): when the cell's
\* lifetime has ended, ~T() has been called exactly once.
C3_AutoDestructInvokesDestructorOnce ==
    C3_AutoDestructCase => cell.dtorLog = <<1>>

\* the case of C4
C4_ExplicitThenTeardownCase ==
    /\ variant = "earlier"
    /\ SELF_DESTRUCT
    /\ NonTrivialT
    /\ phase = "ended"
    /\ nOps = 2
    /\ cell.ctorLog = <<"paren">>
    /\ cell.ctorCalls = 1
    /\ destroyLog = <<1>>

\* C4: with SELF_DESTRUCT set, one value constructed, destruct() called once on
\* it, then the cell's lifetime ended: ~T() has been called exactly once in all.
C4_ExplicitThenTeardownOnce ==
    C4_ExplicitThenTeardownCase => Len(cell.dtorLog) = 1

\* the case of C5
C5_PlainTeardown ==
    /\ last.op = "~maybe_uninit"
    /\ variant = "later" \/ ~SELF_DESTRUCT

\* C5: without the auto-destruct flag (always so in the later variant) the end
\* of the cell's lifetime calls no payload destructor, live value or not; a
\* value never explicitly destroyed has had no destructor call at all.
C5_TeardownInvokesNoDestructor ==
    C5_PlainTeardown =>
        /\ cell.dtorLog = pre.dtorLog
        /\ cell.live = pre.live
        /\ cell.object = pre.object
        /\ destroyLog = <<>> => cell.dtorLog = <<>>

C5_Witness ==
    /\ C5_PlainTeardown
    /\ variant = "later"
    /\ NonTrivialT
    /\ pre.live
    /\ destroyLog = <<>>

\* the case of C6
C6_PlainCreation == last.op \in {"maybe_uninit", "uninit"}

\* C6: a cell made by the default constructor or by uninit<T>() exists, no
\* constructor of T has been called, no value is live and the storage is as
\* it was found; so for every T, a T with a deleted default constructor too.
C6_CreateConstructsNothing ==
    /\ C6_PlainCreation =>
          /\ phase = "alive"
          /\ cell.ctorCalls = 0
          /\ cell.ctorLog = <<>>
          /\ ~cell.live
          /\ cell.object = last.g0
          /\ cell.ret.kind # "throw"
    /\ phase = "unborn" => ENABLED (Create \/ CreateUninit \/ Create20 \/ CreateUninit20)

C6_Witness ==
    /\ C6_PlainCreation
    /\ variant = "later"
    /\ T = "NonTrivial"
    /\ ~default_constructible(T)

\* the case of C7
C7_RoundTrip ==
    /\ variant = "later"
    /\ nOps = 3
    /\ last.op = "paren_init"
    /\ cell.ctorLog = <<"paren", "paren">>
    /\ cell.ctorCalls = 2
    /\ destroyLog = <<1>>

C8_Same(c, d) ==
    /\ c.addr = d.addr
    /\ c.object = d.object
    /\ c.live = d.live
    /\ c.id = d.id
    /\ c.ctorLog = d.ctorLog
    /\ c.ctorCalls = d.ctorCalls
    /\ c.dtorLog = d.dtorLog
    /\ c.misuse = d.misuse
    /\ (c.ret.kind = "throw") = (d.ret.kind = "throw")
    /\ c.ret.exc = d.ret.exc

C8_TaggedCreation ==
    last.op \in {"maybe_uninit(default_init_t)", "maybe_uninit(paren_init_t)",
                 "maybe_uninit(brace_init_t)", "maybe_uninit(default_init_tag)",
                 "maybe_uninit(value_init_tag)", "maybe_uninit(args)"}

C8_TwoStep ==
    CASE last.op = "maybe_uninit(default_init_t)" ->
            default_init(maybe_uninit(last.addr, last.g0), last.exc)
      [] last.op = "maybe_uninit(paren_init_t)" ->
            paren_init(maybe_uninit(last.addr, last.g0), last.args, last.exc)
      [] last.op = "maybe_uninit(brace_init_t)" ->
            brace_init(maybe_uninit(last.addr, last.g0), last.args, last.exc)
      [] last.op = "maybe_uninit(default_init_tag)" ->
            default_init_20(maybe_uninit_20(last.addr, last.g0), last.exc)
      [] last.op = "maybe_uninit(value_init_tag)" ->
            init(maybe_uninit_20(last.addr, last.g0), <<>>, last.exc)
      [] last.op = "maybe_uninit(args)" ->
            init(maybe_uninit_20(last.addr, last.g0), last.args, last.exc)

\* C8: a cell created with a construction tag is in the state, has made the
\* constructor calls and has the failure outcome of an uninitialized cell on
\* which the corresponding member operation was called with the same arguments.
C8_TagEqualsTwoStep ==
    C8_TaggedCreation =>
        /\ C8_Same(cell, C8_TwoStep)
        /\ (phase = "failed") = (C8_TwoStep.ret.kind = "throw")

C8_Witness ==
    /\ last.op = "maybe_uninit(default_init_t)"
    /\ T = "int"
    /\ cell.live
    /\ cell.object = 1

\* the case of C9
C9_ConstructorThrew ==
    /\ last.op \in Constructions
    /\ last.exc # NoExc

\* C9: when the constructor selected by default_init, paren_init or brace_init
\* throws, the caller gets that very exception, no value is live in the cell
\* and the cell has called no destructor.
C9_FailurePropagates ==
    C9_ConstructorThrew =>
        /\ cell.ret = [kind |-> "throw", addr |-> 0, exc |-> last.exc]
        /\ ~cell.live
        /\ cell.dtorLog = pre.dtorLog
        /\ cell.ctorLog = pre.ctorLog
        /\ phase = "alive"

C9_Witness ==
    /\ C9_ConstructorThrew
    /\ variant = "later"
    /\ last.op = "paren_init"
    /\ last.exc = "length_error"

\* the case of C10
C10_Constructed ==
    /\ last.op \in Constructions
    /\ last.exc = NoExc

\* C10 as claimed: every construction operation, in both variants, returns on
\* success a reference to the new value, the object ptr() and ref() designate.
C10_AllReturnReference ==
    C10_Constructed =>
        /\ cell.ret.kind = "ref"
        /\ cell.ret.addr = (IF variant = "later" THEN ptr(cell) ELSE ptr_20(cell))
        /\ cell.ret.addr = (IF variant = "later" THEN ref(cell) ELSE assume_init(cell))

\* C10 as amended: in the later variant default_init, paren_init and brace_init
\* return on success a reference to the new value, the object ptr() and ref()
\* designate; the earlier variant's default_init and init return nothing.
C10_LaterReturnsReference ==
    C10_Constructed =>
        IF variant = "later"
        THEN /\ cell.ret.kind = "ref"
             /\ cell.ret.addr = ptr(cell)
             /\ cell.ret.addr = ref(cell)
             /\ cell.live
        ELSE cell.ret = VoidRet

C10_Witness ==
    /\ C10_Constructed
    /\ variant = "later"
    /\ last.op = "brace_init"
    /\ cell.ret.addr = cell.addr

\* the case of C11
C11_ParenInit42 ==
    /\ variant = "later"
    /\ T = "NonTrivial"
    /\ last.op \in {"maybe_uninit(paren_init_t)", "paren_init"}
    /\ last.args = <<IntArg(42)>>
    /\ pre.ctorCalls = 0
    /\ pre.dtorLog = <<>>

\* C11: for NonTrivial, which has no default constructor and one constructor
\* taking an int, the paren_init_t constructor given 42, and paren_init(42) on
\* a cell in which nothing was constructed, leave a live value equal to
\* NonTrivial(42), with one constructor call made and no destructor call.
C11_ParenInit42ConstructsOnce ==
    C11_ParenInit42 =>
        /\ phase = "alive"
        /\ cell.live
        /\ cell.object = 42
        /\ cell.object = direct_init(T, last.args)
        /\ cell.ctorCalls = 1
        /\ cell.ctorLog = <<"paren">>
        /\ cell.dtorLog = <<>>
        /\ ~cell.misuse

C11_Witness ==
    /\ C11_ParenInit42
    /\ last.op = "maybe_uninit(paren_init_t)"
    /\ cell.live
    /\ cell.object = 42

DefaultOps ==
    {"default_init", "default_init<T>()", "maybe_uninit(default_init_t)",
     "maybe_uninit(default_init_tag)"}

\* the types of the model for which `T` with no initializer is ill-formed
C12_NotDefaultConstructible == T \in {"NonTrivial", "const int"}

\* C12: default_init, the default_init_t (default_init_tag) constructor and the
\* free function default_init<T>() are rejected when the program is compiled
\* exactly when T is not default-constructible: for such a T no execution
\* calls one of them or holds a default construction, and for every other T
\* each of them can be called.
C12_DefaultInitOnlyIfDefaultConstructible ==
    /\ C12_NotDefaultConstructible =>
          /\ last.op \notin DefaultOps
          /\ \A i \in 1..Len(cell.ctorLog) : cell.ctorLog[i] # "default"
          /\ ~ENABLED (DefaultInit \/ DefaultInit20)
          /\ ~ENABLED (CreateDefaultInitT \/ CreateDefaultInitTag)
          /\ ~ENABLED (FreeDefaultInit \/ FreeDefaultInit20)
    /\ ~C12_NotDefaultConstructible =>
          /\ phase = "unborn" =>
                /\ ENABLED (CreateDefaultInitT \/ CreateDefaultInitTag)
                /\ ENABLED (FreeDefaultInit \/ FreeDefaultInit20)
          /\ (phase = "alive" /\ nOps < MaxOps) =>
                ENABLED (DefaultInit \/ DefaultInit20)

\* a NonTrivial cell holds a value, which no default construction made
C12_Witness ==
    /\ C12_NotDefaultConstructible
    /\ phase = "alive"
    /\ cell.live
    /\ nOps = MaxOps

\* the case of C13: a 64-bit argument outside the range of the 32-bit payload
C13_OutOfRange(args) ==
    /\ Len(args) = 1
    /\ args[1].ty = "int64"
    /\ ~in_int32_range(args[1].d)

C13_Int32Cell ==
    /\ variant = "later"
    /\ T = "int"

C13_ParenInitWide ==
    /\ C13_Int32Cell
    /\ last.op \in {"paren_init", "maybe_uninit(paren_init_t)"}
    /\ C13_OutOfRange(last.args)

\* C13: on a cell of a 32-bit integer, for a 64-bit argument outside the
\* 32-bit range, brace_init is rejected when the program is compiled (the
\* conversion narrows) and so constructs nothing, while paren_init is accepted
\* and leaves a live value equal to the argument reduced modulo 2^32.
C13_BraceRejectsParenTruncates ==
    /\ C13_Int32Cell =>
          /\ ~(/\ last.op \in {"brace_init", "maybe_uninit(brace_init_t)"}
               /\ C13_OutOfRange(last.args))
          /\ \A args \in ArgLists :
                C13_OutOfRange(args) =>
                    /\ ~brace_constructible_from(T, args)
                    /\ paren_constructible_from(T, args)
    /\ C13_ParenInitWide =>
          /\ cell.live
          /\ cell.ctorLog[cell.id] = "paren"
          /\ cell.object % W = last.args[1].d[1]
          /\ (cell.object \div W) % W = last.args[1].d[2]
          /\ last.args = <<Int64Arg(INT64_MAX)>> => cell.object = -1
          /\ last.args = <<Int64Arg(TwoTo32Plus1)>> => cell.object = 1

C13_Witness ==
    /\ C13_ParenInitWide
    /\ last.op = "paren_init"
    /\ last.args = <<Int64Arg(INT64_MAX)>>
    /\ cell.live
    /\ cell.object = -1

Creations ==
    {"maybe_uninit", "uninit", "default_init<T>()", "maybe_uninit(default_init_t)",
     "maybe_uninit(paren_init_t)", "maybe_uninit(brace_init_t)",
     "maybe_uninit(default_init_tag)", "maybe_uninit(value_init_tag)",
     "maybe_uninit(args)", "paren_init<T>()", "brace_init<T>()", "paren_init(t)",
     "brace_init(t)", "init<T>()", "init<T>(args)", "init(t)", "init_auto(t)"}

\* the case of C14
C14_Accessed == last.op \in {"ptr", "ref", "assume_init"}

\* C14: ptr() and ref() (assume_init() in the earlier variant) designate the
\* cell's own storage: the pointer is never null and equals the address of the
\* reference, the cell's address never changes, so the result is the same
\* before a construction, while a value is live and after destroy(); and
\* neither accessor changes the storage, the liveness or the constructor and
\* destructor counts.
C14_AccessorsDesignateStorage ==
    /\ C14_Accessed =>
          /\ acc.addr = cell.addr
          /\ acc.addr # 0
          /\ cell = pre
    /\ phase = "alive" =>
          /\ ptr(cell) = addressof_object(cell)
          /\ ptr(cell) # 0
          /\ ptr(cell) = ref(cell)
          /\ ptr_20(cell) = assume_init(cell)
          /\ last.op \notin Creations => cell.addr = pre.addr

\* ptr() after the value was destroyed
C14_Witness ==
    /\ variant = "later"
    /\ T = "NonTrivial"
    /\ last.op = "ptr"
    /\ destroyLog = <<1>>
    /\ ~cell.live
    /\ acc.addr = cell.addr

\* the case of C15
C15_Accessed == last.op \in {"ptr", "ref"}

C16_BytesViewKeepsConst ==
    (phase = "alive" /\ variant = "later") =>
        \A h \in HandleKinds :
            /\ bytes_well_formed(h)
            /\ bytes(cell, h).size = sizeof_T(T)
            /\ bytes(cell, h).addr = cell.addr
            /\ bytes(cell, h).const = (handle_const(h) \/ is_const(T))

\* the case of C17: the bytes were written and the value is read back
C17_WrittenThenRead ==
    /\ T = "uint32_t"
    /\ last.op \in {"uninitialized_fill", "copy"}
    /\ acc.op = "ref"

\* C17: on a cell of a 32-bit unsigned integer, after the bytes b0..b3 were
\* written through bytes(), ref() reads b0 + 256*b1 + 256^2*b2 + 256^3*b3;
\* the bytes 0x67, 0x45, 0x23, 0x01 read back as 0x01234567 and four bytes
\* 0xFF as 0xFFFFFFFF.
C17_BytesRoundTrip ==
    C17_WrittenThenRead =>
        /\ acc.addr = cell.addr
        /\ acc.value[1] = last.args[1] + 256 * last.args[2]
        /\ acc.value[2] = last.args[3] + 256 * last.args[4]
        /\ last.args = <<103, 69, 35, 1>> => acc.value[1] + W * acc.value[2] = 19088743
        /\ last.args = <<255, 255, 255, 255>> => acc.value = <<W - 1, W - 1>>

C17_Witness ==
    /\ C17_WrittenThenRead
    /\ last.op = "copy"
    /\ last.args = <<103, 69, 35, 1>>
    /\ pre.object = <<255, 255, 255, 255>>
    /\ acc.value = <<17767, 291>>

C18_Layout == IF variant = "later" THEN maybe_uninit_layout ELSE maybe_uninit_layout_20

\* the cell with the account of the object's lifetime turned around
C18_Flipped(c) == [c EXCEPT !.live = ~c.live]

\* what an operation did to the storage and which calls it made
C18_Effect(c) == <<c.object, c.ctorCalls, Len(c.ctorLog), Len(c.dtorLog), c.ret>>

\* C18: in either variant and for either value of SELF_DESTRUCT the cell has
\* the size and the alignment of T and holds the payload's storage only: there
\* is no liveness flag or other runtime field, so what destroy(), destruct()
\* and the cell's destructor do never depends on whether a value is live.
C18_PayloadStorageOnly ==
    phase = "alive" =>
        /\ sizeof_class(C18_Layout) = sizeof_T(T)
        /\ alignof_class(C18_Layout) = alignof_T(T)
        /\ C18_Layout.members = <<T>>
        /\ variant = "later" =>
              /\ C18_Effect(destroy(C18_Flipped(cell))) = C18_Effect(destroy(cell))
              /\ C18_Effect(dtor(C18_Flipped(cell))) = C18_Effect(dtor(cell))
        /\ variant = "earlier" =>
              /\ C18_Effect(destruct(C18_Flipped(cell))) = C18_Effect(destruct(cell))
              /\ C18_Effect(dtor_20(C18_Flipped(cell))) = C18_Effect(dtor_20(cell))

\* a self-destructing cell of std::string that holds no value
C18_Witness ==
    /\ phase = "alive"
    /\ variant = "earlier"
    /\ SELF_DESTRUCT
    /\ T = "string"
    /\ ~cell.live
    /\ cell.ctorCalls = 1
    /\ sizeof_class(C18_Layout) = 32

\* successful constructions minus destructor invocations
C19_Balance == Len(cell.ctorLog) - Len(cell.dtorLog)

\* the case of C19: the later variant, used as documented
C19_Respected ==
    /\ variant = "later"
    /\ phase \in {"alive", "ended"}
    /\ doc.ok

\* C19 as stated: while the program constructs only when no value is live and
\* destroys only when one is, successful constructions minus destructor
\* invocations is 0 or 1, and is 1 exactly between a successful construction
\* and the matching destroy().
C19_BalanceIsLiveness ==
    C19_Respected =>
        /\ C19_Balance \in {0, 1}
        /\ C19_Balance = 1 <=> doc.live

\* C19, amended: that holds for a T that is not trivially destructible; for a
\* trivially destructible T destroy() invokes no destructor, and it holds of
\* successful constructions minus destroy() calls.
C19_BalanceIsLivenessNonTrivial ==
    C19_Respected =>
        IF NonTrivialT
        THEN /\ C19_Balance \in {0, 1}
             /\ C19_Balance = 1 <=> doc.live
             /\ doc.live <=> cell.live
        ELSE /\ cell.dtorLog = <<>>
             /\ Len(cell.ctorLog) - Len(destroyLog) \in {0, 1}
             /\ Len(cell.ctorLog) - Len(destroyLog) = 1 <=> doc.live

\* a second value is live after the first was destroyed
C19_Witness ==
    /\ C19_Respected
    /\ T = "NonTrivial"
    /\ Len(cell.ctorLog) = 2
    /\ cell.dtorLog = <<1>>
    /\ doc.live

\* the case of C20
C20_TrivialDestroy ==
    /\ last.op \in {"destroy", "destruct"}
    /\ is_trivially_destructible(T)

\* C20: for a trivially destructible T, destroy() (destruct() in the earlier
\* variant) invokes no destructor and makes no other call, and leaves the
\* storage as it was: what ref() designates and the value to be read there
\* are those from before the call.
C20_TrivialDestroyIsNoOp ==
    C20_TrivialDestroy =>
        /\ cell.dtorLog = pre.dtorLog
        /\ cell.dtorLog = <<>>
        /\ cell.ctorCalls = pre.ctorCalls
        /\ cell.ctorLog = pre.ctorLog
        /\ cell.object = pre.object
        /\ ref(cell) = ref(pre)
        /\ ~cell.misuse
        /\ variant = "later" => cell = [pre EXCEPT !.ret = VoidRet]

C20_Witness ==
    /\ C20_TrivialDestroy
    /\ variant = "later"
    /\ T = "int"
    /\ pre.live
    /\ pre.object = 42
    /\ cell.object = 42

\* the case of C21: positional construction of an int from no argument
C21_EmptyPack ==
    /\ T = "int"
    /\ last.args = <<>>
    /\ last.op \in {"paren_init", "init", "maybe_uninit(paren_init_t)",
                     "maybe_uninit(value_init_tag)"}

\* C21: paren_init(), and init() and the value_init_tag constructor of the
\* earlier variant, value-initialize an int cell: the value is 0 whatever the
\* storage held before; the cell's own default constructor leaves the storage
\* as it found it.
C21_EmptyPackValueInitializes ==
    /\ C21_EmptyPack =>
          /\ cell.live
          /\ cell.object = 0
          /\ cell.ctorLog[cell.id] = "paren"
    /\ (T = "int" /\ last.op = "maybe_uninit") =>
          /\ cell.object = last.g0
          /\ ~cell.live
          /\ cell.ctorCalls = 0

\* init() over storage that held 1
C21_Witness ==
    /\ C21_EmptyPack
    /\ variant = "earlier"
    /\ last.op = "init"
    /\ pre.object = 1
    /\ ~pre.live
    /\ cell.object = 0

\* the case of C22: default-initialization of a plain-old-data payload
C22_DefaultInitOfPod ==
    /\ T = "int"
    /\ last.op \in DefaultOps

\* C22: for a plain-old-data payload such as int, default_init and the
\* default_init_t (default_init_tag) constructor, the free function
\* default_init<T>() with them, initialize nothing: the storage after the call
\* holds what it held before it.
C22_DefaultInitKeepsBytes ==
    C22_DefaultInitOfPod =>
        /\ cell.object = (IF last.op = "default_init" THEN pre.object ELSE last.g0)
        /\ cell.live
        /\ cell.ctorLog[cell.id] = "default"
        /\ cell.dtorLog = pre.dtorLog

\* default_init() over storage that held 42
C22_Witness ==
    /\ C22_DefaultInitOfPod
    /\ last.op = "default_init"
    /\ pre.object = 42
    /\ cell.object = 42

\* the case of C23
C23_FreeCreation ==
    last.op \in {"uninit", "default_init<T>()", "paren_init<T>()", "brace_init<T>()",
                 "paren_init(t)", "brace_init(t)"}

C23_Constructor ==
    CASE last.op = "uninit" -> maybe_uninit(last.addr, last.g0)
      [] last.op = "default_init<T>()" ->
            maybe_uninit_default_init_t(last.addr, last.g0, last.exc)
      [] last.op \in {"paren_init<T>()", "paren_init(t)"} ->
            maybe_uninit_paren_init_t(last.addr, last.g0, last.args, last.exc)
      [] last.op \in {"brace_init<T>()", "brace_init(t)"} ->
            maybe_uninit_brace_init_t(last.addr, last.g0, last.args, last.exc)

C23_Deduced == last.op \in {"paren_init(t)", "brace_init(t)"}

\* the argument expressions of type int a caller can pass to paren_init(t) and
\* brace_init(t): a named variable (lvalue) and a literal or temporary (rvalue)
C23_ArgumentKinds == {"lvalue", "rvalue"}

\* C23: a cell made by a free function is the cell the corresponding constructor
\* makes from the same arguments; the single-argument forms without an explicit
\* T accept an argument of type int, whichever expression it is, and make a
\* cell of payload type int whose value is the argument.
C23_FreeFunctionsEqualConstructors ==
    /\ C23_FreeCreation => C8_Same(cell, C23_Constructor)
    /\ (C23_Deduced /\ phase = "alive") =>
          /\ T = last.args[1].ty
          /\ cell.live
          /\ cell.object = to_int32(last.args[1])
    /\ (variant = "later" /\ T = "int") =>
          \A arg \in IntArgs, k \in C23_ArgumentKinds :
              /\ paren_init_deduced_ok(arg, k)
              /\ brace_init_deduced_ok(arg, k)
              /\ remove_reference_t(deduced(arg, k)) = arg.ty

\* the case of C24
C24_MovedOut ==
    /\ last.op \in MoveOuts
    /\ pre.live

C25_Violation == ~doc.ok \/ cell.misuse

C25_InCriticalSection(t) == pc[t] \in {"locked", "decided", "done"}

\* C25: the cell's operations never wait for or exclude one another; two
\* threads that use one cell under a lock held by the callers around each
\* check and operation never reach a state violating a precondition, and at
\* most one of them is at the cell at a time.  Without the lock such a state
\* is reachable (C25_Witness).
C25_LockSerializes ==
    /\ guarded =>
          /\ ~C25_Violation
          /\ \A t, u \in Threads :
                (C25_InCriticalSection(t) /\ C25_InCriticalSection(u)) => t = u
          /\ \A t \in Threads :
                pc[t] = "decided" => seen[t] = doc.live
    /\ \A t \in Threads :
          (pc[t] = "decided" /\ nOps < MaxOps) =>
              ENABLED (ThreadParenInit(t) \/ ThreadDestroy(t))

\* two constructions by two threads with no destruction in between
C25_Witness ==
    /\ ~guarded
    /\ T = "NonTrivial"
    /\ last.op = "paren_init"
    /\ pre.live
    /\ cell.live
    /\ cell.ctorCalls = 2
    /\ cell.dtorLog = <<>>
    /\ destroyLog = <<>>
    /\ seen = [t \in Threads |-> FALSE]
    /\ C25_Violation

\* the case of C26
C26_AutoTeardown ==
    /\ variant = "earlier"
    /\ SELF_DESTRUCT
    /\ last.op = "~maybe_uninit"

\* the end of the cell's lifetime made one call of destruct(), on the cell as
\* it then was
C26_CalledDestruct ==
    /\ cell.destructCalls = pre.destructCalls + 1
    /\ cell = destruct(pre)

\* C26 as stated: with the auto-destruct flag set, the end of the cell's
\* lifetime calls destruct() once whatever T is and whether a value is live
\* or not, also in a cell in which nothing was ever constructed.
C26_TeardownAlwaysDestructs == C26_AutoTeardown => C26_CalledDestruct

\* C26, amended: with the auto-destruct flag set and T not trivially
\* destructible, the end of the cell's lifetime calls destruct() once whether
\* a value is live or not, also in a cell in which nothing was ever
\* constructed; for a trivially destructible T the defaulted destructor is the
\* cell's destructor and destruct() is not called.
C26_TeardownDestructsNonTrivial ==
    C26_AutoTeardown =>
        IF is_trivially_destructible(T)
        THEN cell = [pre EXCEPT !.ret = VoidRet]
        ELSE C26_CalledDestruct

C26_Witness ==
    /\ C26_AutoTeardown
    /\ T = "NonTrivial"
    /\ pre.ctorCalls = 0
    /\ ~pre.live
    /\ nOps = 0
    /\ cell.destructCalls = 1

\* the case of C27
C27_Construction == last.op \in Constructions

\* C27: a construction operation invokes no destructor, and none of the value
\* the cell held: the destructor calls made are those made before, whether the
\* cell held a live value or not and whether the constructor returned or threw.
\* It makes one constructor call, in the same storage; a live value of a
\* non-trivially-destructible T that was there is gone with its destructor
\* skipped.
C27_ConstructionInvokesNoDestructor ==
    C27_Construction =>
        /\ cell.dtorLog = pre.dtorLog
        /\ cell.destructCalls = pre.destructCalls
        /\ destroyLog = <<>> => cell.dtorLog = <<>>
        /\ cell.ctorCalls = pre.ctorCalls + 1
        /\ cell.addr = pre.addr
        /\ last.exc = NoExc =>
              /\ cell.live
              /\ cell.id = Len(pre.ctorLog) + 1
              /\ cell.id # pre.id
        /\ (pre.live /\ ~is_trivially_destructible(T)) => cell.misuse

C27_Witness ==
    /\ C27_Construction
    /\ last.op = "brace_init"
    /\ T = "NonTrivial"
    /\ pre.live
    /\ pre.id = 1
    /\ cell.live
    /\ cell.id = 2
    /\ cell.dtorLog = <<>>

\* the case of C28
C28_Copied == last.op \in SpecialMembers

====
